---- MODULE Spec2Model ----
(***************************************************************************)
(* Song Lens: the similarity-resolution pipeline of src/lib/api.ts and the *)
(* MusicDiscovery component that drives it.                                *)
(*                                                                         *)
(* Strings the code inspects character by character (URLs) are sequences   *)
(* of one-character strings.  Strings the code only tests for emptiness or *)
(* passes on (image URLs, titles) are TLA+ strings, "" being the empty one.*)
(***************************************************************************)
EXTENDS Integers, Sequences, FiniteSets, TLC

VARIABLES
    urlParts,   \* how the submitted string was put together: [head, id, tail]
    url,        \* the string handed to extractVideoId
    urlPc,      \* "input" | "done"
    videoId,    \* what extractVideoId returned
    simIn,      \* the three upstream responses getSimilarTracks will meet
    simPc,      \* "similar" | "top" | "search" | "slice" | "done"
    simTracks,  \* the local similarTracks
    simCalls,   \* the fallback endpoints queried so far
    simOut,     \* outcome of getSimilarTracks
    artIn,      \* the arguments of getBestCoverArt: [image, title, artist]
    artPc,      \* "embedded" | "youtube" | "fallback" | "done"
    artYt,      \* the answer the thumbnail search met, once it ran
    artOut,     \* outcome of getBestCoverArt
    matchIn,    \* the answer searchLastFmTrack will meet
    matchPc,    \* "search" | "done"
    matchOut,   \* outcome of searchLastFmTrack
    youtubeUrl,       \* MusicDiscovery state: the input field
    isLoading,        \* MusicDiscovery state
    currentSong,      \* MusicDiscovery state: NoSong or a Song
    recommendations,  \* MusicDiscovery state: list of Song
    searchHistory,    \* MusicDiscovery state: list of SearchHistory entries
    req,              \* the handleAnalyze invocations: position and locals
    nStarted,         \* how many times handleAnalyze was invoked
    now               \* Date.now()

urlVars == <<urlParts, url, urlPc, videoId>>
simVars == <<simIn, simPc, simTracks, simCalls, simOut>>
artVars == <<artIn, artPc, artYt, artOut>>
matchVars == <<matchIn, matchPc, matchOut>>
appVars == <<youtubeUrl, isLoading, currentSong, recommendations, searchHistory, req, nStarted, now>>
vars == <<urlVars, simVars, artVars, matchVars, appVars>>
\* What a step of one part leaves alone.
notUrl == <<simVars, artVars, matchVars, appVars>>
notSim == <<urlVars, artVars, matchVars, appVars>>
notArt == <<urlVars, simVars, matchVars, appVars>>
notMatch == <<urlVars, simVars, artVars, appVars>>
notApp == <<urlVars, simVars, artVars, matchVars>>

(***************************************************************************)
(* Bounds of the model.                                                    *)
(***************************************************************************)
MaxIdLen == 2
\* Longest list the similar-tracks endpoint answers with, and longest list a
\* fallback endpoint answers with (upstream need not honour limit=).
MaxSimilarLen == 11
MaxFallbackLen == 7
\* Longest embedded image list of a track.
MaxImages == 2
\* Math.random() is one of 0/RandomDen .. (RandomDen-1)/RandomDen.
RandomDen == 9
\* Longest match list the track search answers with.
MaxMatches == 2
\* How many times the user presses Find Similar.
MaxRequests == 2

(***************************************************************************)
(* Generic sequence helpers.                                               *)
(***************************************************************************)
Take(s, n) == SubSeq(s, 1, IF Len(s) < n THEN Len(s) ELSE n)

Range(s) == {s[i] : i \in 1..Len(s)}

SeqsUpTo(S, n) == UNION {[1..k -> S] : k \in 1..n}

(***************************************************************************)
(* Character material of URLs.                                             *)
(***************************************************************************)
LowerChars == Range(<<"a", "b", "c", "d", "e", "f", "g", "h", "i", "j", "k", "l", "m",
                      "n", "o", "p", "q", "r", "s", "t", "u", "v", "w", "x", "y", "z">>)
UpperChars == Range(<<"A", "B", "C", "D", "E", "F", "G", "H", "I", "J", "K", "L", "M",
                      "N", "O", "P", "Q", "R", "S", "T", "U", "V", "W", "X", "Y", "Z">>)
DigitChars == Range(<<"0", "1", "2", "3", "4", "5", "6", "7", "8", "9">>)

\* The identifier grammar [a-zA-Z0-9_-].
IdGrammarChar(c) == c \in LowerChars \cup UpperChars \cup DigitChars \cup {"_", "-"}

\* The capture class [^&\n?#] of both patterns of extractVideoId.
CaptureChar(c) == c \notin {"&", "\n", "?", "#"}

\* What "." matches in a JavaScript regular expression without the s flag.
DotChar(c) == c \notin {"\n", "\r"}

WatchV == <<"y", "o", "u", "t", "u", "b", "e", ".", "c", "o", "m", "/", "w", "a", "t", "c", "h", "?", "v", "=">>
ShortHost == <<"y", "o", "u", "t", "u", ".", "b", "e", "/">>
EmbedPath == <<"y", "o", "u", "t", "u", "b", "e", ".", "c", "o", "m", "/", "e", "m", "b", "e", "d", "/">>
WatchQ == <<"y", "o", "u", "t", "u", "b", "e", ".", "c", "o", "m", "/", "w", "a", "t", "c", "h", "?">>
VEq == <<"v", "=">>

\* s has the literal lit at position i.
LitAt(s, i, lit) ==
    /\ i + Len(lit) - 1 <= Len(s)
    /\ \A k \in 1..Len(lit) : s[i + k - 1] = lit[k]

\* The end of the longest run of capture characters of s that starts at j.
RunEnd(s, j) ==
    CHOOSE e \in (j - 1)..Len(s) :
        /\ \A k \in j..e : CaptureChar(s[k])
        /\ e = Len(s) \/ ~CaptureChar(s[e + 1])

NoMatch == [found |-> FALSE, id |-> <<>>]
Matched(s, j) == [found |-> TRUE, id |-> SubSeq(s, j, RunEnd(s, j))]

Min(S) == CHOOSE x \in S : \A y \in S : x <= y
Max(S) == CHOOSE x \in S : \A y \in S : x >= y

\* /(?:youtube\.com\/watch\?v=|youtu\.be\/|youtube\.com\/embed\/)([^&\n?#]+)/
\* The positions where the capture group can start: right after one of the
\* three literals, on a capture character.  The match is the leftmost one.
Pattern1Alternatives == {WatchV, ShortHost, EmbedPath}

Pattern1Hits(s) ==
    {h \in 1..Len(s) :
        \E i \in 1..Len(s), alt \in Pattern1Alternatives :
            /\ LitAt(s, i, alt)
            /\ h = i + Len(alt)
            /\ CaptureChar(s[h])}

MatchPattern1(s) ==
    IF Pattern1Hits(s) = {} THEN NoMatch ELSE Matched(s, Min(Pattern1Hits(s)))

\* /youtube\.com\/watch\?.*v=([^&\n?#]+)/
\* For the leftmost "youtube.com/watch?" the greedy ".*" takes the LAST
\* "v=" that a capture character follows, with no line break in between.
Pattern2Hits(s, i) ==
    {h \in 1..Len(s) :
        /\ h - 2 >= i + Len(WatchQ)
        /\ LitAt(s, h - 2, VEq)
        /\ CaptureChar(s[h])
        /\ \A k \in (i + Len(WatchQ))..(h - 3) : DotChar(s[k])}

Pattern2Anchors(s) == {i \in 1..Len(s) : LitAt(s, i, WatchQ) /\ Pattern2Hits(s, i) # {}}

MatchPattern2(s) ==
    IF Pattern2Anchors(s) = {} THEN NoMatch
    ELSE Matched(s, Max(Pattern2Hits(s, Min(Pattern2Anchors(s)))))

\* api.ts extractVideoId: the first pattern that matches decides.
extractVideoId(s) ==
    IF MatchPattern1(s).found THEN MatchPattern1(s) ELSE MatchPattern2(s)

\* SongCard.tsx isValidYouTubeUrl:
\* /^(https?:\/\/)?(www\.)?(youtube\.com\/watch\?v=|youtu\.be\/|youtube\.com\/embed\/)[a-zA-Z0-9_-]+/
\* anchored at the start only; one identifier character after the shape is enough.
ValidSchemes == {<<>>, <<"h", "t", "t", "p", ":", "/", "/">>, <<"h", "t", "t", "p", "s", ":", "/", "/">>}
ValidWww == {<<>>, <<"w", "w", "w", ".">>}

\* A validation that accepts every string.
isValidYouTubeUrlAcceptsAll(s) == TRUE

isValidYouTubeUrl(s) ==
    \E sch \in ValidSchemes, w \in ValidWww, alt \in Pattern1Alternatives :
        /\ LitAt(s, 1, sch \o w \o alt)
        /\ Len(sch \o w \o alt) + 1 <= Len(s)
        /\ IdGrammarChar(s[Len(sch \o w \o alt) + 1])

(***************************************************************************)
(* The URLs the extractor is tried on: a head (scheme, host and shape), an *)
(* identifier, and what follows the identifier.                            *)
(***************************************************************************)
Https == <<"h", "t", "t", "p", "s", ":", "/", "/">>
HttpsWww == <<"h", "t", "t", "p", "s", ":", "/", "/", "w", "w", "w", ".">>
FeatureX == <<"f", "e", "a", "t", "u", "r", "e", "=", "x", "&">>
VimeoWatch == <<"v", "i", "m", "e", "o", ".", "c", "o", "m", "/", "w", "a", "t", "c", "h", "?", "v", "=">>
MyPrefix == <<"m", "y">>
TailT10 == <<"&", "t", "=", "1", "0">>
TailQT == <<"?", "t", "=", "1">>
TailHash == <<"#", "t", "=", "1">>
TailPv == <<"&", "p", "v", "=", "1">>

\* watch?v=ID, youtu.be/ID, embed/ID, and watch?feature=x&v=ID.
AcceptedShapes == {WatchV, ShortHost, EmbedPath, WatchQ \o FeatureX \o VEq}
AcceptedHeads == {p \o sh : p \in {<<>>, Https, HttpsWww}, sh \in AcceptedShapes}
\* vimeo.com and myyoutube.com are not the catalog's domain.
ForeignHeads == {Https \o VimeoWatch, Https \o MyPrefix \o WatchV}

IdChars == {"a", "Z", "9", "-", "_"}
ValidIds == SeqsUpTo(IdChars, MaxIdLen)
MalformedIds == SeqsUpTo(IdChars \cup {"!"}, MaxIdLen) \ ValidIds
Tails == {<<>>, TailT10, TailQT, TailHash, TailPv}

EmptyUrlParts == [head |-> <<>>, id |-> <<>>, tail |-> <<>>]
UrlInputs ==
    {EmptyUrlParts} \cup
    [head : AcceptedHeads \cup ForeignHeads, id : ValidIds \cup MalformedIds, tail : Tails]

UrlOf(p) == p.head \o p.id \o p.tail

(***************************************************************************)
(* SpecUrl: extractVideoId applied to each input.                          *)
(***************************************************************************)
InitUrl ==
    /\ urlParts \in UrlInputs
    /\ url = UrlOf(urlParts)
    /\ urlPc = "input"
    /\ videoId = NoMatch

ExtractVideoId ==
    /\ urlPc = "input"
    /\ videoId' = extractVideoId(url)
    /\ urlPc' = "done"
    /\ UNCHANGED <<urlParts, url>>
    /\ UNCHANGED notUrl

NextUrl == ExtractVideoId

\* C4: for every URL of an accepted shape whose identifier is made of
\* alphanumerics, '-' and '_', extractVideoId returns exactly that identifier,
\* whatever query parameters or fragment surround it.
C4_ExtractsExactId ==
    (urlPc = "done" /\ urlParts.head \in AcceptedHeads /\ urlParts.id \in ValidIds)
        => videoId = [found |-> TRUE, id |-> urlParts.id]

\* C5: for every invalid URL (the empty string, a non-catalog domain, an
\* accepted shape followed by a malformed identifier) extractVideoId returns
\* no identifier.
UrlIsInvalid(p) ==
    \/ UrlOf(p) = <<>>
    \/ p.head \in ForeignHeads
    \/ p.head \in AcceptedHeads /\ p.id \in MalformedIds

C5_InvalidUrlGivesNull ==
    (urlPc = "done" /\ UrlIsInvalid(urlParts)) => ~videoId.found

(***************************************************************************)
(* Outcomes of a call: a value, or an exception with its message.          *)
(***************************************************************************)
Ok(v) == [thrown |-> FALSE, value |-> v, error |-> ""]
Throw(e) == [thrown |-> TRUE, value |-> <<>>, error |-> e]

\* try { return body } catch { return onError }
TryCatch(body, onError) == IF body.thrown THEN Ok(onError) ELSE body

(***************************************************************************)
(* Upstream responses of the similarity service.  kind is                  *)
(*   "ok"     a 2xx answer whose JSON holds the track list                 *)
(*   "nokey"  a 2xx answer whose JSON lacks the list (the ?. / || [] path) *)
(*   "http"   a non-2xx answer (response.ok is false)                      *)
(*   "net"    fetch rejects                                                *)
(*   "parse"  response.json() rejects                                      *)
(* A track is a freshly parsed object: ref is its object identity, which   *)
(* no two parsed objects share; name and artist are its fields.            *)
(***************************************************************************)
ErrorKinds == {"http", "net", "parse"}

TrackList(stage, n, off, art) ==
    [i \in 1..n |-> [name |-> off + i, artist |-> art, ref |-> <<stage, i>>]]

ErrorResponses == {[kind |-> k, tracks |-> <<>>] : k \in ErrorKinds \cup {"nokey"}}

Responses(stage, maxLen, shapes) ==
    {[kind |-> "ok", tracks |-> TrackList(stage, n, sh[1], sh[2])] :
        n \in 0..maxLen, sh \in shapes} \cup ErrorResponses

\* Stage 1 answers tracks 1..n of artist 1.  A fallback answers the same
\* names again (offset 0, same or another artist) or further names.
SimInputs ==
    [similar : Responses("similar", MaxSimilarLen, {<<0, 1>>}),
     top     : Responses("top", MaxFallbackLen, {<<0, 1>>, <<0, 2>>, <<20, 1>>}),
     search  : Responses("search", MaxFallbackLen, {<<0, 1>>, <<20, 1>>, <<40, 1>>})]

\* The list a stage's answer carries.
ListOf(r) == IF r.kind = "ok" THEN r.tracks ELSE <<>>

\* await fetch(...); if (!response.ok) <onNotOk>; await response.json(); <list> || []
FetchList(r, onNotOk) ==
    IF r.kind = "net" THEN Throw("Failed to fetch")
    ELSE IF r.kind = "http" THEN onNotOk
    ELSE IF r.kind = "parse" THEN Throw("Unexpected token")
    ELSE IF r.kind = "nokey" THEN Ok(<<>>)
    ELSE Ok(r.tracks)

\* getArtistTopTracks without its try/catch.
getArtistTopTracksNoCatch(r) == FetchList(r, Ok(<<>>))

\* api.ts getArtistTopTracks: every failure is an empty list.
getArtistTopTracks(r) == TryCatch(FetchList(r, Ok(<<>>)), <<>>)

\* api.ts searchLastFmByTitle: every failure is an empty list.
searchLastFmByTitle(r) == TryCatch(FetchList(r, Ok(<<>>)), <<>>)

\* Stage 1 of getSimilarTracks: a non-2xx answer throws, as fetch and json() do.
FetchSimilar(r) == FetchList(r, Throw("Failed to fetch similar tracks"))

\* [...new Set([...a, ...b])]: insertion order, an element kept once.  Set
\* membership of objects is object identity, so the whole record (ref
\* included) is compared.
RECURSIVE SetOrder(_)
SetOrder(s) ==
    IF s = <<>> THEN <<>>
    ELSE LET init == SetOrder(SubSeq(s, 1, Len(s) - 1))
             last == s[Len(s)]
         IN IF last \in Range(init) THEN init ELSE Append(init, last)

\* A union that puts the later stage's tracks first.
UnionTracksFallbackFirst(a, b) == SetOrder(b \o a)

UnionTracks(a, b) == SetOrder(a \o b)

MinTracks == 5
MaxTracks == 10

\* A test that also asks for more at exactly 5 tracks.
NotEnoughOrJustEnough(tracks) == Len(tracks) <= 5

\* similarTracks.length < 5
NotEnough(tracks) == Len(tracks) < MinTracks

\* similarTracks.slice(0, 10)
SliceMax(tracks) == Take(tracks, MaxTracks)

\* lines 136-140; an exception of the awaited call skips the rest.
AfterTop(tracks, r) ==
    IF NotEnough(tracks)
    THEN LET artistTracks == getArtistTopTracks(r)
         IN IF artistTracks.thrown THEN artistTracks
            ELSE Ok(UnionTracks(tracks, artistTracks.value))
    ELSE Ok(tracks)

\* lines 143-147
AfterSearch(tracks, r) ==
    IF NotEnough(tracks)
    THEN LET searchResults == searchLastFmByTitle(r)
         IN IF searchResults.thrown THEN searchResults
            ELSE Ok(UnionTracks(tracks, searchResults.value))
    ELSE Ok(tracks)

\* The body of the try block of getSimilarTracks.
SimilarBody(in) ==
    LET t1 == FetchSimilar(in.similar)
        t2 == IF t1.thrown THEN t1 ELSE AfterTop(t1.value, in.top)
        t3 == IF t2.thrown THEN t2 ELSE AfterSearch(t2.value, in.search)
    IN IF t3.thrown THEN t3 ELSE Ok(SliceMax(t3.value))

\* getSimilarTracks without its try/catch.
getSimilarTracksNoCatch(in) == SimilarBody(in)

\* getSimilarTracks that treats an empty result as an error.
getSimilarTracksThrowsOnEmpty(in) ==
    IF TryCatch(SimilarBody(in), <<>>).value = <<>> THEN Throw("No similar tracks found")
    ELSE TryCatch(SimilarBody(in), <<>>)

\* api.ts getSimilarTracks, start to end: the catch returns [].
getSimilarTracks(in) == TryCatch(SimilarBody(in), <<>>)

(***************************************************************************)
(* SpecSim: getSimilarTracks run await by await.                           *)
(***************************************************************************)
InitSim ==
    /\ simIn \in SimInputs
    /\ simPc = "similar"
    /\ simTracks = <<>>
    /\ simCalls = {}
    /\ simOut = Ok(<<>>)

\* What a step of the try block leads to: the next await, or the catch.
SimStep(o, nextPc) ==
    IF o.thrown
    THEN /\ simOut' = TryCatch(o, <<>>)
         /\ simPc' = "done"
         /\ UNCHANGED simTracks
    ELSE /\ simTracks' = o.value
         /\ simPc' = nextPc
         /\ UNCHANGED simOut

\* lines 120-133: the similar-tracks request.
SimFetchSimilar ==
    /\ simPc = "similar"
    /\ SimStep(FetchSimilar(simIn.similar), "top")
    /\ UNCHANGED <<simIn, simCalls>>
    /\ UNCHANGED notSim

\* lines 136-140
SimTopTracks ==
    /\ simPc = "top"
    /\ SimStep(AfterTop(simTracks, simIn.top), "search")
    /\ simCalls' = IF NotEnough(simTracks) THEN simCalls \cup {"top"} ELSE simCalls
    /\ UNCHANGED simIn
    /\ UNCHANGED notSim

\* lines 143-147
SimGeneralSearch ==
    /\ simPc = "search"
    /\ SimStep(AfterSearch(simTracks, simIn.search), "slice")
    /\ simCalls' = IF NotEnough(simTracks) THEN simCalls \cup {"search"} ELSE simCalls
    /\ UNCHANGED simIn
    /\ UNCHANGED notSim

\* line 149
SimReturn ==
    /\ simPc = "slice"
    /\ simOut' = Ok(SliceMax(simTracks))
    /\ simPc' = "done"
    /\ UNCHANGED <<simIn, simTracks, simCalls>>
    /\ UNCHANGED notSim

NextSim == SimFetchSimilar \/ SimTopTracks \/ SimGeneralSearch \/ SimReturn

(***************************************************************************)
(* string | null values.                                                   *)
(***************************************************************************)
Some(str) == [null |-> FALSE, str |-> str]
Null == [null |-> TRUE, str |-> ""]
\* JavaScript truthiness of a string | null | undefined value.
Truthy(v) == ~v.null /\ v.str # ""
\* a || b
OrElse(a, b) == IF Truthy(a) THEN a ELSE b

(***************************************************************************)
(* getBestCoverArt and what it calls.                                      *)
(***************************************************************************)
FALLBACK_IMAGES ==
    <<"https://images.unsplash.com/photo-1493225457124-a3eb161ffa5f?w=300&h=300&fit=crop",
      "https://images.unsplash.com/photo-1511379938547-c1f69419868d?w=300&h=300&fit=crop",
      "https://images.unsplash.com/photo-1514320291840-2e0a9bf2a9ae?w=300&h=300&fit=crop",
      "https://images.unsplash.com/photo-1516280440614-37939bbacd81?w=300&h=300&fit=crop",
      "https://images.unsplash.com/photo-1511671782779-c97d3d27a1d4?w=300&h=300&fit=crop",
      "https://images.unsplash.com/photo-1493225457124-a3eb161ffa5f?w=300&h=300&fit=crop&sat=-50",
      "https://images.unsplash.com/photo-1511379938547-c1f69419868d?w=300&h=300&fit=crop&sat=-50",
      "https://images.unsplash.com/photo-1514320291840-2e0a9bf2a9ae?w=300&h=300&fit=crop&sat=-50">>

\* Math.floor(Math.random() * FALLBACK_IMAGES.length), Math.random() = num/RandomDen;
\* JavaScript indexes from 0, a sequence from 1.
RandomNums == 0..(RandomDen - 1)
\* An index rounded up instead of down.
RandomIndexRoundsUp(num) == (num * Len(FALLBACK_IMAGES) + RandomDen - 1) \div RandomDen

RandomIndex(num) == (num * Len(FALLBACK_IMAGES)) \div RandomDen
\* FALLBACK_IMAGES[index]; an index outside the array reads undefined ("").
getRandomFallbackImage(num) ==
    IF RandomIndex(num) + 1 \in DOMAIN FALLBACK_IMAGES THEN FALLBACK_IMAGES[RandomIndex(num) + 1]
    ELSE ""

\* The embedded image list of a track: absent, or a list of { '#text', size }.
ImageSizes == {"small", "medium", "large", "extralarge"}
ImageUrl(size) ==
    CASE size = "small" -> "small.png"
      [] size = "medium" -> "medium.png"
      [] size = "large" -> "large.png"
      [] OTHER -> "extralarge.png"
ImageEntries ==
    UNION {{[size |-> sz, text |-> ""], [size |-> sz, text |-> ImageUrl(sz)]} : sz \in ImageSizes}
NoImages == [present |-> FALSE, list |-> <<>>]
ImageLists ==
    {NoImages} \cup
    {[present |-> TRUE, list |-> l] : l \in {<<>>} \cup SeqsUpTo(ImageEntries, MaxImages)}

\* track.image.find(img => sizes), then  img && img['#text'] && img['#text'].length > 0
FindImage(list, sizes) ==
    IF \E i \in 1..Len(list) : list[i].size \in sizes
    THEN Some(list[Min({i \in 1..Len(list) : list[i].size \in sizes})].text)
    ELSE Null

\* A test that takes any found entry, its text empty or not.
HasTextAnyString(found) == ~found.null

HasText(found) == Truthy(found)

\* lines 234-250: the text returned for the first of large/extralarge,
\* medium, small whose found entry passes the test; Null when no return
\* is taken.
EmbeddedImage(image) ==
    IF ~(image.present /\ Len(image.list) > 0) THEN Null
    ELSE IF HasText(FindImage(image.list, {"large", "extralarge"}))
         THEN FindImage(image.list, {"large", "extralarge"})
    ELSE IF HasText(FindImage(image.list, {"medium"})) THEN FindImage(image.list, {"medium"})
    ELSE IF HasText(FindImage(image.list, {"small"})) THEN FindImage(image.list, {"small"})
    ELSE Null

\* Answers of the catalog's video search.  kind is "net", "http", "parse" as
\* above, "noitems" (no items, or an empty list), "nosnippet" (a first item
\* without snippet.thumbnails: reading it throws a TypeError) or "ok", with
\* the thumbnail URLs ("" where a size is absent).
ThumbResponses ==
    {[kind |-> k, high |-> "", medium |-> "", default |-> ""] :
        k \in {"net", "http", "parse", "noitems", "nosnippet"}} \cup
    [kind : {"ok"}, high : {"", "hq.jpg"}, medium : {"", "mq.jpg"}, default : {"", "default.jpg"}]

\* The try block of searchYouTubeThumbnail.
ThumbnailBody(r) ==
    IF r.kind = "net" THEN Throw("Failed to fetch")
    ELSE IF r.kind = "http" THEN Ok(Null)
    ELSE IF r.kind = "parse" THEN Throw("Unexpected token")
    ELSE IF r.kind = "noitems" THEN Ok(Null)
    ELSE IF r.kind = "nosnippet" THEN Throw("Cannot read properties of undefined")
    ELSE Ok(OrElse(OrElse(OrElse(Some(r.high), Some(r.medium)), Some(r.default)), Null))

\* api.ts searchYouTubeThumbnail: the catch returns null.
searchYouTubeThumbnail(r) == TryCatch(ThumbnailBody(r), Null)

\* if (title && artist)
WantsThumbnail(title, artist) == title # "" /\ artist # ""

\* lines 253-262: the thumbnail search inside its own try/catch; Null when
\* it is skipped, fails or finds nothing.
YouTubeImage(title, artist, r) ==
    IF ~WantsThumbnail(title, artist) THEN Null
    ELSE LET t == TryCatch(searchYouTubeThumbnail(r), Null)
         IN IF Truthy(t.value) THEN t.value ELSE Null

\* api.ts getBestCoverArt, start to end.
getBestCoverArt(image, title, artist, r, num) ==
    IF ~EmbeddedImage(image).null THEN Ok(EmbeddedImage(image).str)
    ELSE IF Truthy(YouTubeImage(title, artist, r)) THEN Ok(YouTubeImage(title, artist, r).str)
    ELSE Ok(getRandomFallbackImage(num))

(***************************************************************************)
(* SpecArt: getBestCoverArt run await by await.                            *)
(***************************************************************************)
NoThumbResponse == [kind |-> "none", high |-> "", medium |-> "", default |-> ""]

InitArt ==
    /\ artIn \in [image : ImageLists, title : {"", "Title"}, artist : {"", "Artist"}]
    /\ artPc = "embedded"
    /\ artYt = NoThumbResponse
    /\ artOut = Ok("")

\* lines 234-253
ArtEmbedded ==
    /\ artPc = "embedded"
    /\ IF ~EmbeddedImage(artIn.image).null
         THEN artOut' = Ok(EmbeddedImage(artIn.image).str) /\ artPc' = "done"
         ELSE /\ artPc' = IF WantsThumbnail(artIn.title, artIn.artist) THEN "youtube" ELSE "fallback"
              /\ UNCHANGED artOut
    /\ UNCHANGED <<artIn, artYt>>
    /\ UNCHANGED notArt

\* lines 254-261
ArtYouTube ==
    /\ artPc = "youtube"
    /\ \E r \in ThumbResponses :
        /\ artYt' = r
        /\ IF Truthy(YouTubeImage(artIn.title, artIn.artist, r))
             THEN artOut' = Ok(YouTubeImage(artIn.title, artIn.artist, r).str) /\ artPc' = "done"
             ELSE artPc' = "fallback" /\ UNCHANGED artOut
    /\ UNCHANGED artIn
    /\ UNCHANGED notArt

\* line 265
ArtFallback ==
    /\ artPc = "fallback"
    /\ \E num \in RandomNums : artOut' = Ok(getRandomFallbackImage(num))
    /\ artPc' = "done"
    /\ UNCHANGED <<artIn, artYt>>
    /\ UNCHANGED notArt

NextArt == ArtEmbedded \/ ArtYouTube \/ ArtFallback

(***************************************************************************)
(* searchLastFmTrack.                                                      *)
(***************************************************************************)
\* A found track, or null.
SomeTrack(t) == [null |-> FALSE, track |-> t]
NullTrack == [null |-> TRUE, track |-> [name |-> "", artist |-> "", ref |-> <<"none", 0>>]]

MatchNames == {"", "Name1", "Name2"}
MatchArtists == {"", "Artist1", "Artist2"}
\* The match lists of the track search: entry i is the i-th parsed object.
MatchLists ==
    {<<>>} \cup
    UNION {{[i \in 1..k |-> [name |-> f[i][1], artist |-> f[i][2], ref |-> <<"match", i>>]] :
                f \in [1..k -> MatchNames \X MatchArtists]} : k \in 1..MaxMatches}
MatchResponses ==
    {[kind |-> "ok", tracks |-> l] : l \in MatchLists} \cup ErrorResponses

\* The try block of searchLastFmTrack (lines 77-90).
MatchBody(r) ==
    IF r.kind = "net" THEN Throw("Failed to fetch")
    ELSE IF r.kind = "http" THEN Ok(NullTrack)
    ELSE IF r.kind = "parse" THEN Throw("Unexpected token")
    ELSE IF r.kind = "ok" /\ Len(r.tracks) > 0 THEN Ok(SomeTrack(r.tracks[1]))
    ELSE Ok(NullTrack)

\* searchLastFmTrack without its try/catch.
searchLastFmTrackNoCatch(r) == MatchBody(r)

\* api.ts searchLastFmTrack: the catch returns null.
searchLastFmTrack(r) == TryCatch(MatchBody(r), NullTrack)

(***************************************************************************)
(* SpecMatch: searchLastFmTrack on each answer.                            *)
(***************************************************************************)
InitMatch ==
    /\ matchIn \in MatchResponses
    /\ matchPc = "search"
    /\ matchOut = Ok(NullTrack)

SearchLastFmTrack ==
    /\ matchPc = "search"
    /\ matchOut' = searchLastFmTrack(matchIn)
    /\ matchPc' = "done"
    /\ UNCHANGED matchIn
    /\ UNCHANGED notMatch

NextMatch == SearchLastFmTrack

(***************************************************************************)
(* getYouTubeVideoDetails.                                                 *)
(***************************************************************************)
\* Answers of the catalog's videos endpoint.  kind is "net", "http", "parse"
\* as above, "noitems" (no items, or an empty list), "nothumbs" (a snippet
\* without thumbnails: reading it throws a TypeError) or "ok"; high and
\* default are the thumbnail URLs, "" where the size is absent.
DetailResponses ==
    {[kind |-> k, title |-> "", channelTitle |-> "", high |-> "", default |-> ""] :
        k \in {"net", "http", "parse", "noitems", "nothumbs"}} \cup
    {[kind |-> "ok", title |-> "Title", channelTitle |-> "Channel", high |-> th[1], default |-> th[2]] :
        th \in {<<"", "default.jpg">>, <<"", "">>}}

NoDetails == [title |-> "", channelTitle |-> "", thumbnail |-> Null]

\* A getYouTubeVideoDetails that answers an empty record when the catalog
\* has no item for the id.
getYouTubeVideoDetailsIgnoresEmpty(r) ==
    IF r.kind = "noitems" THEN Ok(NoDetails)
    ELSE IF r.kind = "ok"
    THEN Ok([title |-> r.title, channelTitle |-> r.channelTitle, thumbnail |-> Some(r.high)])
    ELSE Throw("Failed to fetch YouTube video details")

\* api.ts getYouTubeVideoDetails: nothing is caught.
getYouTubeVideoDetails(r) ==
    IF r.kind = "net" THEN Throw("Failed to fetch")
    ELSE IF r.kind = "http" THEN Throw("Failed to fetch YouTube video details")
    ELSE IF r.kind = "parse" THEN Throw("Unexpected token")
    ELSE IF r.kind = "noitems" THEN Throw("Video not found")
    ELSE IF r.kind = "nothumbs" THEN Throw("Cannot read properties of undefined")
    ELSE Ok([title |-> r.title, channelTitle |-> r.channelTitle,
             thumbnail |-> OrElse(Some(r.high), IF r.default = "" THEN Null ELSE Some(r.default))])

(***************************************************************************)
(* The MusicDiscovery component (SongCard.tsx).                            *)
(***************************************************************************)
Requests == 1..MaxRequests

\* The strings the user types.
UrlBlank == <<" ", " ">>
UrlForeign == Https \o VimeoWatch \o <<"a">>
UrlA == Https \o ShortHost \o <<"a">>
UrlB == HttpsWww \o WatchV \o <<"Z">> \o TailT10
\* UrlA after a space, and a short link whose identifier ends in "!".
UrlSpaced == <<" ">> \o UrlA
UrlMalformed == ShortHost \o <<"a", "!">>
AppUrls == {<<>>, UrlBlank, UrlForeign, UrlSpaced, UrlA, UrlB, UrlMalformed}

\* url.trim() is empty.
RECURSIVE TrimLeft(_)
TrimLeft(str) == IF str # <<>> /\ Head(str) = " " THEN TrimLeft(Tail(str)) ELSE str
RECURSIVE TrimRight(_)
TrimRight(str) ==
    IF str # <<>> /\ str[Len(str)] = " " THEN TrimRight(SubSeq(str, 1, Len(str) - 1)) ELSE str
Trim(str) == TrimRight(TrimLeft(str))

\* A Song; req records which handleAnalyze invocation built it.
NoSong == [title |-> "", artist |-> "", coverArt |-> Null, youtubeUrl |-> <<>>, req |-> 0]

\* A toast; found is the number in "Found n similar songs", -1 elsewhere.
Toast(title, description) == [title |-> title, description |-> description, found |-> -1]
FoundToast(n) == [title |-> "Analysis Complete!", description |-> "Found n similar songs", found |-> n]

\* The calls an invocation has made: the video details, the track search,
\* getSimilarTracks, and the per-track resolutions it started.
NoCalls == [details |-> 0, match |-> 0, similar |-> 0, resolve |-> 0]

\* An invocation of handleAnalyze: where it is (pc), what its closure
\* captured (url, hist), its locals (videoId, details, lastFmTrack, song,
\* similarLen, candidates, results, pending, and outOfOrder: a resolution
\* completed before one of an earlier candidate) and a record of what it
\* did (toasts, calls, addedHistory, and of the answers it got:
\* detailsKind, allEmpty).
IdleReq ==
    [pc |-> "idle", url |-> <<>>, hist |-> <<>>, videoId |-> <<>>, details |-> NoDetails,
     lastFmTrack |-> NullTrack, song |-> NoSong,
     similarLen |-> 0, candidates |-> <<>>, results |-> <<>>, pending |-> {},
     toasts |-> <<>>, calls |-> NoCalls, addedHistory |-> FALSE,
     detailsKind |-> "none", allEmpty |-> FALSE, outOfOrder |-> FALSE]

\* A finished invocation: its locals are gone; the record of what it did
\* remains.
Finished(rq, pc, toast) ==
    [IdleReq EXCEPT !.pc = pc, !.toasts = Append(rq.toasts, toast),
                    !.calls = rq.calls, !.addedHistory = rq.addedHistory,
                    !.detailsKind = rq.detailsKind, !.allEmpty = rq.allEmpty]

\* The tracks the similarity service answers with in the component's runs.
AppTrack(stage, i, name, artist, image) ==
    [name |-> name, artist |-> artist, image |-> image, ref |-> <<stage, i>>]
LargeImage(text) == [present |-> TRUE, list |-> <<[size |-> "large", text |-> text]>>]
SimTrack1 == AppTrack("similar", 1, "Sim1", "Artist1", LargeImage("large.png"))
SimTrack2 == AppTrack("similar", 2, "Sim2", "", NoImages)
\* The top track is Sim1 again, parsed from another answer and with an empty image URL.
TopTrack1 == AppTrack("top", 1, "Sim1", "Artist1", LargeImage(""))
SearchTrack1 == AppTrack("search", 1, "Title", "Artist9", NoImages)
\* Nine similar tracks, each with a large image of its own.
SimNames == <<"Sim1", "Sim2", "Sim3", "Sim4", "Sim5", "Sim6", "Sim7", "Sim8", "Sim9">>
NineTracks == [i \in 1..9 |-> AppTrack("similar", i, SimNames[i], "Artist1", LargeImage("large.png"))]
OkTracks(tracks) == [kind |-> "ok", tracks |-> tracks]
FailedWith(kind) == [kind |-> kind, tracks |-> <<>>]
AppSimInputs ==
    {[similar |-> OkTracks(<<>>), top |-> OkTracks(<<>>), search |-> FailedWith("nokey")],
     [similar |-> OkTracks(<<SimTrack1, SimTrack2>>), top |-> OkTracks(<<TopTrack1>>), search |-> OkTracks(<<>>)],
     [similar |-> FailedWith("http"), top |-> OkTracks(<<TopTrack1>>), search |-> OkTracks(<<SearchTrack1>>)],
     [similar |-> OkTracks(<<>>), top |-> FailedWith("net"), search |-> OkTracks(<<SearchTrack1>>)]}
\* A similarity service that has nine similar tracks.
NineTracksInput == [similar |-> OkTracks(NineTracks), top |-> OkTracks(<<>>), search |-> OkTracks(<<>>)]

AllEmpty(in) == \A st \in {"similar", "top", "search"} : in[st].kind \in {"ok", "nokey"} /\ ListOf(in[st]) = <<>>

\* The answers the track search gives in the component's runs.
AppMatchResponses ==
    {FailedWith("net"), OkTracks(<<>>),
     OkTracks(<<[name |-> "Name1", artist |-> "Artist1", ref |-> <<"match", 1>>]>>),
     OkTracks(<<[name |-> "Name1", artist |-> "", ref |-> <<"match", 1>>]>>)}

\* The thumbnail answers and Math.random() values of the component's runs.
AppThumbResponses == {r \in ThumbResponses : r.kind = "ok" /\ r.high # "" /\ r.medium = "" /\ r.default = ""}
AppRandomNums == {RandomDen - 1}

\* a || b on plain strings.
StrOr(a, b) == IF a # "" THEN a ELSE b

\* lines 291-296: the Song built from the video details and the match.
BuildCurrentSong(details, lastFmTrack, u, r) ==
    [title |-> IF lastFmTrack.null THEN details.title ELSE StrOr(lastFmTrack.track.name, details.title),
     artist |-> IF lastFmTrack.null THEN details.channelTitle
                ELSE StrOr(lastFmTrack.track.artist, details.channelTitle),
     coverArt |-> details.thumbnail,
     youtubeUrl |-> u,
     req |-> r]

\* .slice(0, 10): the history keeps the last 10 searches.
HistoryMax == 10

\* A history entry; req records which handleAnalyze invocation added it
\* (0: it was loaded from localStorage).
HistoryEntry(u, title, artist, time, r) ==
    [url |-> u, title |-> title, artist |-> artist, timestamp |-> time, req |-> r]

\* An addToHistory that does not filter the URL out of the old entries.
addToHistoryNoFilter(history, u, title, artist, time, r) ==
    Take(<<HistoryEntry(u, title, artist, time, r)>> \o history, HistoryMax)

\* lines 239-245 addToHistory, on the searchHistory its closure captured.
addToHistory(history, u, title, artist, time, r) ==
    Take(<<HistoryEntry(u, title, artist, time, r)>>
            \o SelectSeq(history, LAMBDA item : item.url # u),
         HistoryMax)

\* lines 217-227: the history found in localStorage on mount, as an earlier
\* session saved it: n entries, most recent first, the last of them for
\* UrlA when withA.
StoredIds == <<"b", "c", "d", "e", "f", "g", "h", "i", "j", "k">>
StoredUrl(i) == Https \o ShortHost \o <<StoredIds[i]>>
StoredHistory(n, withA) ==
    [i \in 1..n |->
        HistoryEntry(IF withA /\ i = n THEN UrlA ELSE StoredUrl(i), "Title", "Channel", n + 1 - i, 0)]
StoredHistories ==
    {StoredHistory(HistoryMax - 1, FALSE), StoredHistory(HistoryMax, TRUE)}

\* A Find Similar button that is never disabled.
FindSimilarAlwaysEnabled == TRUE

\* The Find Similar button: disabled={isLoading}.
FindSimilarEnabled == ~isLoading

InitApp ==
    /\ youtubeUrl = <<>>
    /\ isLoading = FALSE
    /\ currentSong = NoSong
    /\ recommendations = <<>>
    /\ searchHistory = <<>>
    /\ req = [r \in Requests |-> IdleReq]
    /\ nStarted = 0
    /\ now = 1

\* A session that starts with a stored history.
InitStored ==
    /\ youtubeUrl = <<>>
    /\ isLoading = FALSE
    /\ currentSong = NoSong
    /\ recommendations = <<>>
    /\ searchHistory \in StoredHistories
    /\ req = [r \in Requests |-> IdleReq]
    /\ nStarted = 0
    /\ now = HistoryMax + 1

\* A session whose clicks so far were all on the empty input (lines 256-263),
\* one click left.
InitLong ==
    /\ youtubeUrl = <<>>
    /\ isLoading = FALSE
    /\ currentSong = NoSong
    /\ recommendations = <<>>
    /\ searchHistory = <<>>
    /\ req = [r \in Requests |->
                IF r < MaxRequests
                THEN Finished(IdleReq, "rejected", Toast("URL Required", "Please enter a YouTube URL"))
                ELSE IdleReq]
    /\ nStarted = MaxRequests - 1
    /\ now = 1

\* lines 247-253 clearHistory: the Clear All button, shown with a non-empty
\* history.
ClearHistory ==
    /\ searchHistory # <<>>
    /\ searchHistory' = <<>>
    /\ UNCHANGED <<youtubeUrl, isLoading, currentSong, recommendations, req, nStarted, now>>
    /\ UNCHANGED notApp

\* lines 350-354 handleClearCurrent: the New Search button, shown with a
\* current song and never disabled.
HandleClearCurrent ==
    /\ currentSong # NoSong
    /\ currentSong' = NoSong
    /\ recommendations' = <<>>
    /\ youtubeUrl' = <<>>
    /\ UNCHANGED <<isLoading, searchHistory, req, nStarted, now>>
    /\ UNCHANGED notApp

\* line 587 onSelect: a click on the card of recommendation i, shown
\* whenever there are recommendations.
SelectSong ==
    /\ \E i \in 1..Len(recommendations) :
          /\ currentSong # recommendations[i]
          /\ currentSong' = recommendations[i]
    /\ UNCHANGED <<youtubeUrl, isLoading, recommendations, searchHistory, req, nStarted, now>>
    /\ UNCHANGED notApp

\* line 441: typing into the input, which is disabled while loading.
TypeUrl ==
    /\ ~isLoading
    /\ \E u \in AppUrls \ {youtubeUrl} : youtubeUrl' = u
    /\ UNCHANGED <<isLoading, currentSong, recommendations, searchHistory, req, nStarted, now>>
    /\ UNCHANGED notApp

\* lines 255-276: the click, up to the first await.
HandleAnalyze ==
    /\ FindSimilarEnabled
    /\ nStarted < MaxRequests
    /\ nStarted' = nStarted + 1
    /\ LET r == nStarted + 1 IN
        IF Trim(youtubeUrl) = <<>>
        THEN /\ req' = [req EXCEPT ![r] = Finished(@, "rejected", Toast("URL Required", "Please enter a YouTube URL"))]
             /\ UNCHANGED isLoading
        ELSE IF ~isValidYouTubeUrl(youtubeUrl)
        THEN /\ req' = [req EXCEPT ![r] = Finished(@, "rejected", Toast("Invalid URL", "Please enter a valid YouTube URL"))]
             /\ UNCHANGED isLoading
        ELSE /\ req' = [req EXCEPT ![r] = [@ EXCEPT !.pc = "import", !.url = youtubeUrl, !.hist = searchHistory]]
             /\ isLoading' = TRUE
    /\ UNCHANGED <<youtubeUrl, currentSong, recommendations, searchHistory, now>>
    /\ UNCHANGED notApp

\* A catch that shows no toast.
FailSilently(r, rq, message) ==
    /\ req' = [req EXCEPT ![r] = [Finished(rq, "failed", Toast("Analysis Failed", message))
                                      EXCEPT !.toasts = rq.toasts]]
    /\ isLoading' = FALSE

\* lines 332-342: catch (toast) and finally.
\* A catch block without the finally block.
FailKeepsLoading(r, rq, message) ==
    /\ req' = [req EXCEPT ![r] = Finished(rq, "failed", Toast("Analysis Failed", message))]
    /\ UNCHANGED isLoading

Fail(r, rq, message) ==
    /\ req' = [req EXCEPT ![r] = Finished(rq, "failed", Toast("Analysis Failed", message))]
    /\ isLoading' = FALSE

\* lines 277-286: after the import, extractVideoId and the details request.
\* extractVideoId on each URL the component can be given.
VideoIdOf == [u \in AppUrls |-> extractVideoId(u)]

ExtractAndFetch(r) ==
    /\ req[r].pc = "import"
    /\ IF ~VideoIdOf[req[r].url].found
         THEN Fail(r, req[r], "Invalid YouTube URL")
         ELSE /\ req' = [req EXCEPT ![r] =
                    [@ EXCEPT !.pc = "details",
                              !.videoId = VideoIdOf[req[r].url].id,
                              !.calls.details = @ + 1]]
              /\ UNCHANGED isLoading
    /\ UNCHANGED <<youtubeUrl, currentSong, recommendations, searchHistory, nStarted, now>>
    /\ UNCHANGED notApp

\* lines 286-289: the details arrive (or the call throws); the track search starts.
DetailsReturn(r) ==
    /\ req[r].pc = "details"
    /\ \E resp \in DetailResponses :
        LET o == getYouTubeVideoDetails(resp) IN
        IF o.thrown
        THEN Fail(r, [req[r] EXCEPT !.detailsKind = resp.kind], o.error)
        ELSE /\ req' = [req EXCEPT ![r] =
                    [@ EXCEPT !.pc = "matching", !.details = o.value,
                              !.detailsKind = resp.kind, !.calls.match = @ + 1]]
             /\ UNCHANGED isLoading
    /\ UNCHANGED <<youtubeUrl, currentSong, recommendations, searchHistory, nStarted, now>>
    /\ UNCHANGED notApp

\* lines 289-305: the match arrives; setCurrentSong, addToHistory, and the
\* similar-tracks request starts.
MatchReturn(r) ==
    /\ req[r].pc = "matching"
    /\ \E resp \in AppMatchResponses :
        LET o == searchLastFmTrack(resp) IN
        IF o.thrown
        THEN /\ Fail(r, req[r], o.error)
             /\ UNCHANGED <<currentSong, searchHistory, now>>
        ELSE LET song == BuildCurrentSong(req[r].details, o.value, req[r].url, r) IN
             /\ currentSong' = song
             /\ searchHistory' = addToHistory(req[r].hist, req[r].url, song.title, song.artist, now, r)
             /\ now' = now + 1
             /\ req' = [req EXCEPT ![r] =
                    [@ EXCEPT !.pc = "expanding", !.lastFmTrack = o.value, !.song = song,
                              !.addedHistory = TRUE, !.calls.similar = @ + 1]]
             /\ UNCHANGED isLoading
    /\ UNCHANGED <<youtubeUrl, recommendations, nStarted>>
    /\ UNCHANGED notApp

\* similarTracks.slice(0, 8)
MaxCandidates == 8
\* A map over all the similar tracks.
CandidatesAll(similarTracks) == similarTracks

Candidates(similarTracks) == Take(similarTracks, MaxCandidates)

\* lines 301-309: the similar tracks arrive; one resolution per track of
\* similarTracks.slice(0, 8) starts.
SimilarReturn(r) ==
    /\ req[r].pc = "expanding"
    /\ \E in \in AppSimInputs \cup {simIn} :
        LET o == getSimilarTracks(in) IN
        IF o.thrown
        THEN Fail(r, [req[r] EXCEPT !.allEmpty = AllEmpty(in)], o.error)
        ELSE /\ req' = [req EXCEPT ![r] =
                    [@ EXCEPT !.pc = "resolving",
                              !.similarLen = Len(o.value),
                              !.candidates = Candidates(o.value),
                              !.results = [i \in 1..Len(Candidates(o.value)) |-> NoSong],
                              !.pending = 1..Len(Candidates(o.value)),
                              !.calls.resolve = @ + Len(Candidates(o.value)),
                              !.allEmpty = AllEmpty(in)]]
             /\ UNCHANGED isLoading
    /\ UNCHANGED <<youtubeUrl, currentSong, recommendations, searchHistory, nStarted, now>>
    /\ UNCHANGED notApp

\* A Promise.all that collects the values in the order they arrive.
PlaceResultInCompletionOrder(results, i, song) ==
    [results EXCEPT ![Min({j \in 1..Len(results) : results[j] = NoSong})] = song]

\* Promise.all: the value of the i-th promise is entry i of the result.
PlaceResult(results, i, song) == [results EXCEPT ![i] = song]

\* lines 309-322: the resolution of candidate i completes.
ResolveCandidate(r, i) ==
    /\ req[r].pc = "resolving"
    /\ i \in req[r].pending
    /\ UNCHANGED <<youtubeUrl, currentSong, recommendations, searchHistory, nStarted, now>>
    /\ UNCHANGED notApp
    /\ \E resp \in AppThumbResponses, num \in AppRandomNums :
        LET track == req[r].candidates[i]
            o == getBestCoverArt(track.image, track.name, track.artist, resp, num) IN
        IF o.thrown
        THEN Fail(r, req[r], o.error)
        ELSE /\ req' = [req EXCEPT ![r] =
                    [@ EXCEPT !.pending = @ \ {i},
                              !.outOfOrder = @ \/ (\E j \in req[r].pending : j < i),
                              !.results = PlaceResult(@, i,
                                  [title |-> track.name, artist |-> track.artist,
                                   coverArt |-> Some(o.value), youtubeUrl |-> <<>>, req |-> r])]]
             /\ UNCHANGED isLoading

\* lines 325-331 and 341: Promise.all resolved; setRecommendations, the
\* success toast, and finally.
CommitRecommendations(r) ==
    /\ req[r].pc = "resolving"
    /\ req[r].pending = {}
    /\ recommendations' = req[r].results
    /\ req' = [req EXCEPT ![r] = Finished(@, "done", FoundToast(Len(req[r].results)))]
    /\ isLoading' = FALSE
    /\ UNCHANGED <<youtubeUrl, currentSong, searchHistory, nStarted, now>>
    /\ UNCHANGED notApp

NextApp ==
    \/ TypeUrl
    \/ ClearHistory
    \/ HandleClearCurrent
    \/ SelectSong
    \/ HandleAnalyze
    \/ \E r \in Requests : ExtractAndFetch(r)
    \/ \E r \in Requests : DetailsReturn(r)
    \/ \E r \in Requests : MatchReturn(r)
    \/ \E r \in Requests : SimilarReturn(r)
    \/ \E r \in Requests : \E i \in 1..MaxTracks : ResolveCandidate(r, i)
    \/ \E r \in Requests : CommitRecommendations(r)

(***************************************************************************)
(* Specifications.  Each runs one part of the program and holds the other  *)
(* parts in their initial state.                                           *)
(***************************************************************************)
IdleUrl == urlParts = EmptyUrlParts /\ url = <<>> /\ urlPc = "done" /\ videoId = NoMatch
IdleSim ==
    /\ simIn = [similar |-> [kind |-> "nokey", tracks |-> <<>>],
                top |-> [kind |-> "nokey", tracks |-> <<>>],
                search |-> [kind |-> "nokey", tracks |-> <<>>]]
    /\ simPc = "done" /\ simTracks = <<>> /\ simCalls = {} /\ simOut = Ok(<<>>)
IdleArt ==
    /\ artIn = [image |-> NoImages, title |-> "", artist |-> ""]
    /\ artPc = "done" /\ artYt = NoThumbResponse /\ artOut = Ok("")
IdleMatch ==
    /\ matchIn = [kind |-> "nokey", tracks |-> <<>>]
    /\ matchPc = "done" /\ matchOut = Ok(NullTrack)

IdleApp == InitApp

InitOnlyUrl == InitUrl /\ IdleSim /\ IdleArt /\ IdleMatch /\ IdleApp
InitOnlySim == InitSim /\ IdleUrl /\ IdleArt /\ IdleMatch /\ IdleApp
InitOnlyArt == InitArt /\ IdleUrl /\ IdleSim /\ IdleMatch /\ IdleApp
InitOnlyMatch == InitMatch /\ IdleUrl /\ IdleSim /\ IdleArt /\ IdleApp
Init == InitApp /\ IdleUrl /\ IdleSim /\ IdleArt /\ IdleMatch
InitWithStored == InitStored /\ IdleUrl /\ IdleSim /\ IdleArt /\ IdleMatch
\* The component with a similarity service that answers nine tracks.
InitWithNine ==
    /\ InitLong /\ IdleUrl /\ IdleArt /\ IdleMatch
    /\ simIn = NineTracksInput
    /\ simPc = "done" /\ simTracks = <<>> /\ simCalls = {} /\ simOut = Ok(<<>>)
Next == NextApp

SpecUrl == InitOnlyUrl /\ [][NextUrl]_vars
SpecSim == InitOnlySim /\ [][NextSim]_vars
SpecArt == InitOnlyArt /\ [][NextArt]_vars
SpecMatch == InitOnlyMatch /\ [][NextMatch]_vars
Spec == Init /\ [][Next]_vars
SpecStored == InitWithStored /\ [][Next]_vars
SpecNine == InitWithNine /\ [][Next]_vars

(***************************************************************************)
(* Properties of getSimilarTracks (SpecSim).                               *)
(***************************************************************************)
TrackKey(t) == <<t.name, t.artist>>

NoDuplicateKeys(tracks) ==
    \A i, j \in 1..Len(tracks) : i # j => TrackKey(tracks[i]) # TrackKey(tracks[j])

\* C1: whatever the three endpoints answer, getSimilarTracks returns at most
\* 10 tracks and no two of them have the same (name, artist) pair.
C1_AtMostTenNoDuplicates ==
    simPc = "done" => (Len(simOut.value) <= 10 /\ NoDuplicateKeys(simOut.value))

\* C8: the output is the similar-tracks results in upstream order, then the
\* unique fallback results in the order their stages ran, cut to 10 after
\* all unions; 3 primary tracks plus 4 further unique top tracks give
\* exactly those 7, primary first.
C8_PrimaryFirstThenFallback ==
    (/\ simPc = "done"
     /\ simIn.similar.kind \notin ErrorKinds
     /\ NoDuplicateKeys(ListOf(simIn.similar) \o ListOf(simIn.top) \o ListOf(simIn.search)))
    => /\ ~simOut.thrown
       /\ \E a \in {<<>>, ListOf(simIn.top)}, b \in {<<>>, ListOf(simIn.search)} :
              simOut.value = Take(ListOf(simIn.similar) \o a \o b, 10)
       /\ (Len(ListOf(simIn.similar)) = 3 /\ Len(ListOf(simIn.top)) = 4)
              => simOut.value = ListOf(simIn.similar) \o ListOf(simIn.top)

C8_Witness ==
    /\ simPc = "done"
    /\ Len(ListOf(simIn.similar)) = 3 /\ Len(ListOf(simIn.top)) = 4
    /\ NoDuplicateKeys(ListOf(simIn.similar) \o ListOf(simIn.top) \o ListOf(simIn.search))
    /\ Len(simOut.value) = 7

\* The same answers with every failed request turned into an empty list.
Softened(r) == IF r.kind \in ErrorKinds THEN [kind |-> "ok", tracks |-> <<>>] ELSE r
SoftenedIn(in) ==
    [similar |-> Softened(in.similar), top |-> Softened(in.top), search |-> Softened(in.search)]
FailedStages(in) == {st \in {"similar", "top", "search"} : in[st].kind \in ErrorKinds}

\* C9 as stated: an error at any single stage (similar-tracks included) is an
\* empty set for that stage only; the later stages run as after an empty
\* result and their tracks are returned.
C9_AnyStageErrorIsEmpty ==
    (simPc = "done" /\ Cardinality(FailedStages(simIn)) = 1)
        => simOut = getSimilarTracks(SoftenedIn(simIn))

\* C9 amended: an error at the top-tracks or general-search stage is an empty
\* set for that stage only; an error at the similar-tracks stage makes
\* getSimilarTracks return [] without querying a fallback endpoint; it never
\* throws.
C9_FallbackErrorIsEmpty ==
    simPc = "done"
    => /\ ~simOut.thrown
       /\ simIn.similar.kind \in ErrorKinds => (simOut.value = <<>> /\ simCalls = {})
       /\ simIn.similar.kind \notin ErrorKinds => simOut = getSimilarTracks(SoftenedIn(simIn))

C9_Witness ==
    /\ simPc = "done"
    /\ simIn.similar.kind = "ok"
    /\ simIn.top.kind \in ErrorKinds
    /\ simCalls = {"top", "search"}
    /\ Len(ListOf(simIn.search)) > 0
    /\ simOut.value = ListOf(simIn.similar) \o ListOf(simIn.search)

(***************************************************************************)
(* Properties of getBestCoverArt (SpecArt).                                *)
(***************************************************************************)
\* C3: getBestCoverArt never throws and never returns the empty string,
\* whatever the image list, the title and artist and the outcome of the
\* thumbnail search.
C3_NeverFailsNeverEmpty ==
    artPc = "done" => (~artOut.thrown /\ artOut.value # "")

C3_Witness ==
    /\ artPc = "done"
    /\ \E i \in 1..Len(artIn.image.list) : artIn.image.list[i].text = ""
    /\ artYt.kind = "net"
    /\ artOut.value \in Range(FALLBACK_IMAGES)

(***************************************************************************)
(* Properties of searchLastFmTrack (SpecMatch).                            *)
(***************************************************************************)
\* C10: searchLastFmTrack returns the top match or null and never throws; a
\* non-success status, a transport error, a parse error and an empty match
\* list all give null.
C10_TopMatchOrNull ==
    matchPc = "done"
    => /\ ~matchOut.thrown
       /\ IF matchIn.kind = "ok" /\ Len(matchIn.tracks) > 0
            THEN matchOut.value = SomeTrack(matchIn.tracks[1])
            ELSE matchOut.value = NullTrack

C10_Witness ==
    /\ matchPc = "done"
    /\ matchIn.kind \in {"net", "parse"}
    /\ matchOut.value.null

(***************************************************************************)
(* Properties of the MusicDiscovery component (Spec).                      *)
(***************************************************************************)
\* The step in which invocation r calls setCurrentSong, and the one in which
\* it calls setRecommendations.
CommitsSong(r) == req[r].pc = "matching" /\ req'[r].pc = "expanding"
CommitsRecs(r) == req[r].pc = "resolving" /\ req'[r].pc = "done"

C6_FailedRequestLeavesNoHistory ==
    \A r \in Requests :
        req[r].pc \in {"failed", "rejected"}
        => /\ ~req[r].addedHistory
           /\ \A i \in 1..Len(searchHistory) : searchHistory[i].req # r

C6_Witness ==
    /\ req[1].pc = "done"
    /\ req[2].pc = "failed"
    /\ req[2].toasts = <<Toast("Analysis Failed", "Video not found")>>
    /\ Len(searchHistory) = 1
    /\ searchHistory[1].req = 1

\* C7: when the three endpoints all answer with empty lists the request ends
\* in Done with zero recommendations and the one toast "Found 0 similar
\* songs"; it does not fail.
C7_AllEmptyIsDoneWithZero ==
    \A r \in Requests :
        req[r].allEmpty
        => \/ req[r].pc = "resolving" /\ req[r].candidates = <<>>
           \/ /\ req[r].pc = "done"
              /\ req[r].toasts = <<FoundToast(0)>>
              /\ r = nStarted => recommendations = <<>>

C7_Witness ==
    /\ req[1].pc = "done"
    /\ req[2].pc = "done"
    /\ req[2].allEmpty
    /\ ~req[1].allEmpty
    /\ recommendations = <<>>
    /\ currentSong.req = 2

\* C11: the track search never fails the request, and the (title, artist)
\* passed to getSimilarTracks is either the matched track's (name, artist)
\* or the video's (title, channel), never a mix of the two and never empty.
C11_IdentityIsOnePair ==
    \A r \in Requests :
        /\ req[r].pc = "failed" => req[r].calls.match = 0
        /\ req[r].pc = "expanding"
           => LET identity == <<req[r].song.title, req[r].song.artist>>
                  matched == <<req[r].lastFmTrack.track.name, req[r].lastFmTrack.track.artist>>
                  raw == <<req[r].details.title, req[r].details.channelTitle>>
              IN /\ identity \in (IF req[r].lastFmTrack.null THEN {raw} ELSE {matched, raw})
                 /\ identity[1] # "" /\ identity[2] # ""

\* The step in which invocation r of handleAnalyze starts (the click).
Submits(r) == nStarted' = nStarted + 1 /\ r = nStarted'

\* C12: a submitted input that matches no accepted URL shape ends the request
\* at once with an error toast, with no call to the catalog or the
\* similarity service made and with isLoading, currentSong, recommendations
\* and the history unchanged; a foreign URL and a URL after a space are
\* such inputs.
C12_InvalidUrlRejectedAtOnce ==
    [][\A r \in Requests :
          Submits(r) =>
            /\ ~isValidYouTubeUrl(youtubeUrl)
               => /\ req'[r].pc = "rejected"
                  /\ Len(req'[r].toasts) = 1
                  /\ req'[r].toasts[1].title \in {"URL Required", "Invalid URL"}
                  /\ req'[r].calls = NoCalls
                  /\ UNCHANGED <<isLoading, currentSong, recommendations, searchHistory>>
            /\ youtubeUrl \in {UrlForeign, UrlSpaced}
               => /\ req'[r].pc = "rejected"
                  /\ req'[r].toasts = <<Toast("Invalid URL", "Please enter a valid YouTube URL")>>]_vars

C12_Witness ==
    /\ req[1].pc = "done"
    /\ req[2].pc = "rejected"
    /\ req[2].toasts = <<Toast("Invalid URL", "Please enter a valid YouTube URL")>>
    /\ req[2].calls = NoCalls
    /\ youtubeUrl = UrlSpaced
    /\ ~isLoading
    /\ currentSong.req = 1
    /\ Len(searchHistory) = 1

\* C13: an invocation calls getYouTubeVideoDetails at most once; when the
\* catalog answers with zero items the request fails with "Video not
\* found", on a non-success status it fails with the different message
\* "Failed to fetch YouTube video details", and in both cases the track
\* search, getSimilarTracks and the per-track resolutions are never called.
C13_DetailsOnceAndFailureEnds ==
    \A r \in Requests :
        /\ req[r].calls.details <= 1
        /\ req[r].detailsKind \in {"noitems", "http"}
           => /\ req[r].pc = "failed"
              /\ req[r].toasts =
                    <<Toast("Analysis Failed",
                            IF req[r].detailsKind = "noitems" THEN "Video not found"
                            ELSE "Failed to fetch YouTube video details")>>
              /\ req[r].calls = [NoCalls EXCEPT !.details = 1]

C13_Witness ==
    /\ req[1].pc = "failed" /\ req[1].detailsKind = "http"
    /\ req[2].pc = "failed" /\ req[2].detailsKind = "noitems"
    /\ req[1].toasts # req[2].toasts
    /\ req[2].calls = [NoCalls EXCEPT !.details = 1]
    /\ ~isLoading

\* At most 10 entries, no URL twice, most recent first.
HistoryWellFormed(h) ==
    /\ Len(h) <= 10
    /\ \A i, j \in 1..Len(h) :
          i < j => (h[i].url # h[j].url /\ h[i].timestamp > h[j].timestamp)

\* C14: whatever analyses succeed and whenever the history is cleared, the
\* history has at most 10 entries, no two with the same url, most recent
\* first; a successful analysis leaves exactly one entry for its URL, at
\* the head, with the time of the analysis.
C14_HistoryCappedUniqueRecentFirst ==
    /\ []HistoryWellFormed(searchHistory)
    /\ [][\A r \in Requests :
            CommitsSong(r) =>
              /\ searchHistory'[1].url = req[r].url
              /\ searchHistory'[1].timestamp = now
              /\ Cardinality({i \in 1..Len(searchHistory') : searchHistory'[i].url = req[r].url}) = 1]_vars

C14_Witness ==
    /\ req[1].pc = "done" /\ req[2].pc = "done"
    /\ Len(searchHistory) = 10
    /\ searchHistory[1].url = UrlB /\ searchHistory[1].req = 2
    /\ searchHistory[2].url = UrlA /\ searchHistory[2].req = 1
    /\ searchHistory[10].url = StoredUrl(8)

\* C15: the per-track resolutions complete in any order, and in every case
\* entry i of the committed recommendations is the resolution of candidate
\* i of the list getSimilarTracks returned.
C15_RecommendationsInCandidateOrder ==
    [][\A r \in Requests :
          CommitsRecs(r) =>
            /\ Len(recommendations') = Len(req[r].candidates)
            /\ \A i \in 1..Len(req[r].candidates) :
                  /\ recommendations'[i].title = req[r].candidates[i].name
                  /\ recommendations'[i].artist = req[r].candidates[i].artist]_vars

\* All resolutions have completed, a later one before an earlier one, and
\* Promise.all holds their values in candidate order.
C15_Witness ==
    /\ req[1].pc = "resolving"
    /\ req[1].outOfOrder
    /\ req[1].pending = {}
    /\ Len(req[1].results) = 3
    /\ req[1].results[1].title = "Sim1" /\ req[1].results[2].title = "Sim2"
    /\ req[1].results[3].title = "Sim1"

\* C16 as stated: one resolution runs for each track getSimilarTracks
\* returned, so as many recommendations are committed as tracks were
\* returned (up to 10).
C16_OneRecommendationPerReturnedTrack ==
    /\ [](\A r \in Requests :
            req[r].pc = "resolving" => Len(req[r].candidates) = req[r].similarLen)
    /\ [][\A r \in Requests :
            CommitsRecs(r) => Len(recommendations') = req[r].similarLen]_vars

\* C16 amended: one resolution runs for each of the first 8 tracks
\* getSimilarTracks returned, so min(8, number of returned tracks)
\* recommendations are committed.
C16_OneRecommendationPerFirstEight ==
    /\ [](\A r \in Requests :
            req[r].pc = "resolving" =>
              /\ Len(req[r].candidates) = Min({8, req[r].similarLen})
              /\ req[r].calls.resolve = Len(req[r].candidates))
    /\ [][\A r \in Requests :
            CommitsRecs(r) =>
              /\ Len(recommendations') = Min({8, req[r].similarLen})
              /\ req'[r].calls.resolve = Len(recommendations')]_vars

C16_Witness ==
    /\ req[MaxRequests].pc = "done"
    /\ req[MaxRequests].calls.resolve = 8
    /\ Len(recommendations) = 8
    /\ recommendations[8].title = "Sim8"

\* C17: the current song and every recommendation in the visible state have
\* a non-empty cover art URL, also when the video has neither a high nor a
\* default thumbnail.
C17_CoverArtAlwaysPopulated ==
    /\ currentSong.req # 0 => Truthy(currentSong.coverArt)
    /\ \A i \in 1..Len(recommendations) : Truthy(recommendations[i].coverArt)

\* C18: a request that ends without success (rejected input, or a failure
\* while extracting the id or fetching the details) has shown exactly one
\* error toast and no success toast; a request that succeeds has shown
\* exactly one success toast and no error toast; a running request none.
C18_OneTerminalToast ==
    \A r \in Requests :
        /\ req[r].pc = "rejected"
           => Len(req[r].toasts) = 1 /\ req[r].toasts[1].title \in {"URL Required", "Invalid URL"}
        /\ req[r].pc = "failed"
           => Len(req[r].toasts) = 1 /\ req[r].toasts[1].title = "Analysis Failed"
        /\ req[r].pc = "done"
           => Len(req[r].toasts) = 1 /\ req[r].toasts[1].title = "Analysis Complete!"
        /\ req[r].pc \notin {"rejected", "failed", "done"} => req[r].toasts = <<>>

C18_Witness ==
    /\ req[1].pc = "failed"
    /\ req[1].detailsKind = "noitems"
    /\ req[1].toasts = <<Toast("Analysis Failed", "Video not found")>>
    /\ req[2].pc = "done"
    /\ req[2].toasts = <<FoundToast(3)>>

\* C19: the video id passed to getYouTubeVideoDetails holds only letters,
\* digits, "-" and "_".
C19_IdMatchesGrammar ==
    \A r \in Requests :
        req[r].calls.details > 0 /\ req[r].pc = "details"
        => \A i \in 1..Len(req[r].videoId) : IdGrammarChar(req[r].videoId[i])

\* C20: when the similar-tracks request answers, the artist top tracks are
\* requested exactly when it answered fewer than 5 tracks, and the general
\* search exactly when the list after the top-tracks stage still has fewer
\* than 5; with 5 or more similar tracks no fallback endpoint is called.
C20_FallbacksExactlyWhenShort ==
    (simPc = "done" /\ simIn.similar.kind \notin ErrorKinds)
    => LET stage1 == ListOf(simIn.similar)
           stage2 == IF Len(stage1) < 5 THEN UnionTracks(stage1, ListOf(simIn.top)) ELSE stage1
       IN /\ "top" \in simCalls <=> Len(stage1) < 5
          /\ "search" \in simCalls <=> Len(stage2) < 5
          /\ Len(stage1) >= 5 => simCalls = {}

C20_Witness ==
    /\ simPc = "done"
    /\ Len(ListOf(simIn.similar)) = 4
    /\ simCalls = {"top"}
    /\ Len(ListOf(simIn.search)) > 0
    /\ Len(simOut.value) = 5

\* The non-empty URLs the image list holds for the given size classes.
Usable(list, sizes) ==
    {list[i].text : i \in {j \in 1..Len(list) : list[j].size \in sizes /\ list[j].text # ""}}

\* C21: when the image list holds a large or extralarge entry with a
\* non-empty URL the result is the URL of such an entry; otherwise a
\* non-empty medium URL if there is one; otherwise a non-empty small URL;
\* an entry with an empty URL is never returned and never hides a usable
\* entry of the same class.
C21_PrefersUsableBySizeClass ==
    artPc = "done"
    => LET list == artIn.image.list IN
       /\ artOut.value # ""
       /\ IF Usable(list, {"large", "extralarge"}) # {}
            THEN artOut.value \in Usable(list, {"large", "extralarge"})
          ELSE IF Usable(list, {"medium"}) # {} THEN artOut.value \in Usable(list, {"medium"})
          ELSE IF Usable(list, {"small"}) # {} THEN artOut.value \in Usable(list, {"small"})
          ELSE TRUE

\* C22: with no non-empty URL in the image list and nothing from the
\* thumbnail search (not run because title or artist is missing, no items,
\* an HTTP, transport or parse error), the result is a member of
\* FALLBACK_IMAGES; the random index is always within the pool and every
\* pool entry is non-empty.
C22_FallbackFromPool ==
    /\ \A num \in RandomNums : RandomIndex(num) \in 0..(Len(FALLBACK_IMAGES) - 1)
    /\ \A i \in 1..Len(FALLBACK_IMAGES) : FALLBACK_IMAGES[i] # ""
    /\ (/\ artPc = "done"
        /\ Usable(artIn.image.list, ImageSizes) = {}
        /\ artYt.kind \in {"none", "noitems", "http", "net", "parse", "nosnippet"})
       => /\ ~artOut.thrown
          /\ artOut.value # ""
          /\ artOut.value \in Range(FALLBACK_IMAGES)

C22_Witness ==
    /\ artPc = "done"
    /\ Len(artIn.image.list) > 0
    /\ Usable(artIn.image.list, ImageSizes) = {}
    /\ artYt.kind = "noitems"
    /\ artOut.value = FALLBACK_IMAGES[Len(FALLBACK_IMAGES)]

\* C27: every input isValidYouTubeUrl accepts gives a non-null id from
\* extractVideoId, and every input from which extractVideoId returns an id
\* of letters, digits, "-" and "_" is accepted by isValidYouTubeUrl.
C27_ValidatorAndExtractorAgree ==
    urlPc = "done"
    => /\ isValidYouTubeUrl(url) => videoId.found
       /\ (videoId.found /\ \A i \in 1..Len(videoId.id) : IdGrammarChar(videoId.id[i]))
          => isValidYouTubeUrl(url)

\* C23: in every reachable state of the component, non-empty recommendations
\* come with a non-null current song.
C23_RecommendationsOnlyWithCurrentSong ==
    recommendations # <<>> => currentSong # NoSong

\* C24: an addToHistory of a request adds its own entry only: every other
\* entry of the new history was in the history just before, so entries
\* removed by clearHistory do not come back.
C24_ClearedEntriesStayCleared ==
    [][\A r \in Requests :
          CommitsSong(r)
          => \A i \in 2..Len(searchHistory') : searchHistory'[i] \in Range(searchHistory)]_vars

\* A handleAnalyze invocation that passed validation and has not reached
\* its finally block.
InFlight(r) == req[r].pc \notin {"idle", "rejected", "failed", "done"}

\* C26: when no analysis is in flight and a current song is displayed next
\* to non-empty recommendations, every recommendation was computed by the
\* request the current song comes from.
C26_SongAndRecommendationsOfOneRequest ==
    (/\ ~isLoading
     /\ \A r \in Requests : ~InFlight(r)
     /\ currentSong # NoSong
     /\ recommendations # <<>>)
    => \A i \in 1..Len(recommendations) : recommendations[i].req = currentSong.req

(***************************************************************************)
(* Every upstream call eventually returns or errors, and the continuation  *)
(* of a started handleAnalyze is eventually run.                           *)
(***************************************************************************)
Continue(r) ==
    \/ ExtractAndFetch(r)
    \/ DetailsReturn(r)
    \/ MatchReturn(r)
    \/ SimilarReturn(r)
    \/ \E i \in 1..MaxTracks : ResolveCandidate(r, i)
    \/ CommitRecommendations(r)

UpstreamAnswers == WF_vars(\E r \in Requests : Continue(r))

SpecLive == Init /\ [][Next]_vars /\ UpstreamAnswers

\* C25: at most one analysis is in flight at any time and isLoading is true
\* exactly while one is; an analysis leaves the in-flight stages only as done
\* or failed, setting isLoading to false in the same step; and whenever an
\* analysis is in flight, eventually none is and isLoading is false.
C25_OneInFlightAndLoadingEnds ==
    /\ [](Cardinality({r \in Requests : InFlight(r)}) <= 1)
    /\ [](isLoading <=> \E r \in Requests : InFlight(r))
    /\ [][\A r \in Requests :
            (InFlight(r) /\ req'[r].pc # req[r].pc /\ req'[r].pc \in {"idle", "rejected", "failed", "done"})
            => (req'[r].pc \in {"done", "failed"} /\ ~isLoading')]_vars
    /\ (\E r \in Requests : InFlight(r)) ~> (~isLoading /\ \A r \in Requests : ~InFlight(r))

C25_Witness ==
    /\ req[1].pc = "failed"
    /\ req[2].pc = "done"
    /\ ~isLoading

====
